---- MODULE Spec2Model ----
(***************************************************************************)
(* The micromouse flood-fill controller of src/micromouse_floodfill.py:    *)
(* the maze model (wall bit masks), the flood fill, the orientation        *)
(* control and the control loop of MicromouseFloodfill.run, one action per *)
(* kind of loop cycle.  The simulator behind the API class is the          *)
(* environment: a real maze that answers the wall queries, and a reset     *)
(* signal.                                                                 *)
(***************************************************************************)
EXTENDS Integers, Sequences, FiniteSets, TLC

VARIABLES
    width, height,      \* self.width, self.height
    real,               \* the simulator's maze: wall mask of every cell
    x, y, direction,    \* self.x, self.y, self.direction
    phase,              \* self.phase: "explore" | "speed_run"
    visited,            \* self.visited
    walls,              \* self.walls
    goals,              \* self.goals (a list)
    flood_values,       \* self.flood_values
    step_count,         \* the local step_count of run
    outcome,            \* "running", or how the loop of run ended
    best_direction,     \* the direction chosen in the last cycle / turn call
    cmds,               \* ackReset, turn and move commands sent in the last cycle
    wall_cmds,          \* setWall commands sent in the last cycle
    last                \* what the last cycle (or call) was

vars == <<width, height, real, x, y, direction, phase, visited, walls, goals,
          flood_values, step_count, outcome, best_direction, cmds, wall_cmds, last>>

----------------------------------------------------------------------------
(* Bounds of the model *)

MaxW == 3
MaxH == 2
MaxWalls == 2
MaxGoals == 2
\* the interior walls set by the set_wall calls of SpecUnit
MaxUnitWalls == 1
\* the reset signal is raised in the first MaxResetStep cycles only
MaxResetStep == 4
\* the runs to the step ceiling are explored in the corridors of this width
CorridorWidth == 3

\* the width of the grids of SpecTwoRows and SpecThreeRows
RowsWidth == 5

(* Program constants *)

\* step_count > 10000 ends the loop
StepCeiling == 10000
\* float('inf'), the unreachable sentinel: larger than every distance
Inf == 1000000
\* the bias of an unvisited neighbour's score
UnvisitedBias == 100
\* best_direction = None
None == -1

----------------------------------------------------------------------------
(* The maze model *)

Directions == 0 .. 3

Cells == (0 .. width - 1) \X (0 .. height - 1)

InBounds(cx, cy) == 0 <= cx /\ cx < width /\ 0 <= cy /\ cy < height

\* 1 << direction
get_direction_bit(d) == 2 ^ d

\* mask & bit, for a one-bit value
HasBit(mask, bit) == (mask \div bit) % 2 = 1

\* mask | bit, for a one-bit value
BitOr(mask, bit) == IF HasBit(mask, bit) THEN mask ELSE mask + bit

get_direction_offset(d) == << <<0, 1>>, <<1, 0>>, <<0, -1>>, <<-1, 0>> >>[d + 1]

Neighbour(cx, cy, d) ==
    <<cx + get_direction_offset(d)[1], cy + get_direction_offset(d)[2]>>

is_wall(w, cx, cy, d) ==
    IF cx < 0 \/ cx >= width \/ cy < 0 \/ cy >= height
    THEN TRUE
    ELSE HasBit(w[<<cx, cy>>], get_direction_bit(d))

\* set_wall that assigns the bit to the mask of the cell (= for |=)
set_wall_assign(w, cx, cy, d) ==
    IF 0 <= cx /\ cx < width /\ 0 <= cy /\ cy < height
    THEN LET w1 == [w EXCEPT ![<<cx, cy>>] = get_direction_bit(d)]
             adj == Neighbour(cx, cy, d)
             opposite_dir == (d + 2) % 4
         IN  IF 0 <= adj[1] /\ adj[1] < width /\ 0 <= adj[2] /\ adj[2] < height
             THEN [w1 EXCEPT ![adj] = BitOr(@, get_direction_bit(opposite_dir))]
             ELSE w1
    ELSE w

\* set_wall without the update of the adjacent cell
set_wall_one_side(w, cx, cy, d) ==
    IF 0 <= cx /\ cx < width /\ 0 <= cy /\ cy < height
    THEN [w EXCEPT ![<<cx, cy>>] = BitOr(@, get_direction_bit(d))]
    ELSE w

set_wall(w, cx, cy, d) ==
    IF 0 <= cx /\ cx < width /\ 0 <= cy /\ cy < height
    THEN LET w1 == [w EXCEPT ![<<cx, cy>>] = BitOr(@, get_direction_bit(d))]
             adj == Neighbour(cx, cy, d)
             opposite_dir == (d + 2) % 4
         IN  IF 0 <= adj[1] /\ adj[1] < width /\ 0 <= adj[2] /\ adj[2] < height
             THEN [w1 EXCEPT ![adj] = BitOr(@, get_direction_bit(opposite_dir))]
             ELSE w1
    ELSE w

\* [[0 for _ in range(height)] for _ in range(width)]
NoWalls == [c \in Cells |-> 0]

OrIf(mask, cond, bit) == IF cond THEN BitOr(mask, bit) ELSE mask

\* initialize_boundaries without the east walls
initialize_boundaries_no_east(w) ==
    [c \in Cells |->
        OrIf(OrIf(OrIf(w[c], c[2] = 0, 4), c[2] = height - 1, 1), c[1] = 0, 8)]

initialize_boundaries(w) ==
    [c \in Cells |->
        OrIf(OrIf(OrIf(OrIf(w[c], c[2] = 0, 4), c[2] = height - 1, 1),
                  c[1] = 0, 8), c[1] = width - 1, 2)]

----------------------------------------------------------------------------
(* The flood fill: a breadth-first search from the goal cells, with the    *)
(* queue of the code                                                       *)

RECURSIVE flood_directions(_, _, _, _)
\* for direction in range(4), for the dequeued cell c; st = [fv, queue]
flood_directions(w, st, c, d) ==
    IF d >= 4 THEN st
    ELSE LET current_value == st.fv[c]
             next == Neighbour(c[1], c[2], d)
         IN  IF /\ ~is_wall(w, c[1], c[2], d)
                /\ InBounds(next[1], next[2])
                /\ st.fv[next] > current_value + 1
             THEN flood_directions(w,
                      [fv |-> [st.fv EXCEPT ![next] = current_value + 1],
                       queue |-> Append(st.queue, next)], c, d + 1)
             ELSE flood_directions(w, st, c, d + 1)

RECURSIVE flood_loop(_, _)
\* while queue
flood_loop(w, st) ==
    IF st.queue = <<>> THEN st.fv
    ELSE flood_loop(w, flood_directions(w,
             [fv |-> st.fv, queue |-> Tail(st.queue)], Head(st.queue), 0))

\* floodfill that puts only the first goal cell in the queue
floodfill_first_goal(w, g) ==
    flood_loop(w, [fv |-> [c \in Cells |->
                              IF \E i \in 1 .. Len(g) : g[i] = c THEN 0 ELSE Inf],
                   queue |-> <<g[1]>>])

floodfill(w, g) ==
    flood_loop(w, [fv |-> [c \in Cells |->
                              IF \E i \in 1 .. Len(g) : g[i] = c THEN 0 ELSE Inf],
                   queue |-> g])

----------------------------------------------------------------------------
(* The controller.  A controller state is a record c of the fields of the  *)
(* object and of the loop of run.                                          *)

\* the goal list with the single cell (center_x, center_y) for every parity
center_goals_single ==
    << <<width \div 2, height \div 2>> >>

\* the goal list of __init__ and of the reset branch
center_goals ==
    LET center_x == width \div 2
        center_y == height \div 2
    IN  IF width % 2 = 0 /\ height % 2 = 0
        THEN << <<center_x - 1, center_y - 1>>, <<center_x, center_y - 1>>,
                <<center_x - 1, center_y>>, <<center_x, center_y>> >>
        ELSE IF width % 2 = 0
        THEN << <<center_x - 1, center_y>>, <<center_x, center_y>> >>
        ELSE IF height % 2 = 0
        THEN << <<center_x, center_y - 1>>, <<center_x, center_y>> >>
        ELSE << <<center_x, center_y>> >>

\* the string 'nsew' indexed by abs_direction
WallLetters == <<"n", "s", "e", "w">>

RECURSIVE scan_loop(_, _, _, _, _, _)
\* for i, has_wall in enumerate(wall_checks); st = [walls, wall_cmds]
scan_loop(st, cx, cy, dir, wall_checks, i) ==
    IF i >= 4 THEN st
    ELSE IF wall_checks[i + 1]
         THEN LET abs_direction == (dir + i) % 4
              IN  scan_loop([walls |-> set_wall(st.walls, cx, cy, abs_direction),
                             wall_cmds |-> Append(st.wall_cmds,
                                 <<cx, cy, WallLetters[abs_direction + 1]>>)],
                            cx, cy, dir, wall_checks, i + 1)
         ELSE scan_loop(st, cx, cy, dir, wall_checks, i + 1)

\* scan_walls that leaves out the front sensor
scan_walls_no_front(w, cx, cy, dir, wall_checks) ==
    scan_loop([walls |-> w, wall_cmds |-> <<>>], cx, cy, dir, wall_checks, 1)

\* wall_checks = <<front, right, back, left>>
scan_walls(w, cx, cy, dir, wall_checks) ==
    scan_loop([walls |-> w, wall_cmds |-> <<>>], cx, cy, dir, wall_checks, 0)

at_goal(c) == \E i \in 1 .. Len(c.goals) : c.goals[i] = <<c.x, c.y>>

\* next_value < best_value, where inf < inf is false
RECURSIVE best_loop(_, _, _)
\* the loop of get_best_direction; b = [best_direction, best_value]
best_loop(c, b, d) ==
    IF d >= 4 THEN b.best_direction
    ELSE LET next == Neighbour(c.x, c.y, d)
         IN  IF /\ ~is_wall(c.walls, c.x, c.y, d)
                /\ InBounds(next[1], next[2])
                /\ c.flood_values[next] < b.best_value
             THEN best_loop(c, [best_direction |-> d,
                                best_value |-> c.flood_values[next]], d + 1)
             ELSE best_loop(c, b, d + 1)

RECURSIVE best_loop_le(_, _, _)
\* the loop of get_best_direction with next_value <= best_value
best_loop_le(c, b, d) ==
    IF d >= 4 THEN b.best_direction
    ELSE LET next == Neighbour(c.x, c.y, d)
         IN  IF /\ ~is_wall(c.walls, c.x, c.y, d)
                /\ InBounds(next[1], next[2])
                /\ c.flood_values[next] <= b.best_value
                /\ c.flood_values[next] # Inf
             THEN best_loop_le(c, [best_direction |-> d,
                                   best_value |-> c.flood_values[next]], d + 1)
             ELSE best_loop_le(c, b, d + 1)

\* get_best_direction that takes the last of the neighbours of equal
\* lowest distance
get_best_direction_last(c) ==
    best_loop_le(c, [best_direction |-> None, best_value |-> Inf], 0)

RECURSIVE best_loop_highest(_, _, _)
\* the loop of get_best_direction with next_value > best_value
best_loop_highest(c, b, d) ==
    IF d >= 4 THEN b.best_direction
    ELSE LET next == Neighbour(c.x, c.y, d)
         IN  IF /\ ~is_wall(c.walls, c.x, c.y, d)
                /\ InBounds(next[1], next[2])
                /\ c.flood_values[next] > b.best_value
             THEN best_loop_highest(c, [best_direction |-> d,
                                        best_value |-> c.flood_values[next]], d + 1)
             ELSE best_loop_highest(c, b, d + 1)

\* get_best_direction that takes the neighbour with the highest distance
get_best_direction_highest(c) ==
    best_loop_highest(c, [best_direction |-> None, best_value |-> -1], 0)

\* get_best_direction with best_value initialised to 0
get_best_direction_zero(c) ==
    best_loop(c, [best_direction |-> None, best_value |-> 0], 0)

get_best_direction(c) ==
    best_loop(c, [best_direction |-> None, best_value |-> Inf], 0)

\* the score of an unvisited neighbour without the bias
unbiased_value(v) == v

\* flood_values[..] - 100, where inf - 100 is inf
BiasedValue(v) == IF v = Inf THEN Inf ELSE v - UnvisitedBias

RECURSIVE explore_loop(_, _, _)
\* the selection loop of the exploration branch of run
explore_loop(c, b, d) ==
    IF d >= 4 THEN b.best_direction
    ELSE LET next == Neighbour(c.x, c.y, d)
             next_value == IF next \notin c.visited
                           THEN BiasedValue(c.flood_values[next])
                           ELSE c.flood_values[next]
         IN  IF /\ ~is_wall(c.walls, c.x, c.y, d)
                /\ InBounds(next[1], next[2])
                /\ next_value < b.best_value
             THEN explore_loop(c, [best_direction |-> d,
                                   best_value |-> next_value], d + 1)
             ELSE explore_loop(c, b, d + 1)

RECURSIVE explore_loop_le(_, _, _)
\* the selection loop with next_value <= best_value
explore_loop_le(c, b, d) ==
    IF d >= 4 THEN b.best_direction
    ELSE LET next == Neighbour(c.x, c.y, d)
             next_value == IF next \notin c.visited
                           THEN BiasedValue(c.flood_values[next])
                           ELSE c.flood_values[next]
         IN  IF /\ ~is_wall(c.walls, c.x, c.y, d)
                /\ InBounds(next[1], next[2])
                /\ next_value <= b.best_value
             THEN explore_loop_le(c, [best_direction |-> d,
                                      best_value |-> next_value], d + 1)
             ELSE explore_loop_le(c, b, d + 1)

explore_direction_le(c) ==
    explore_loop_le(c, [best_direction |-> None, best_value |-> Inf], 0)

explore_direction(c) ==
    explore_loop(c, [best_direction |-> None, best_value |-> Inf], 0)

RECURSIVE FloatExponent(_)
\* the binary exponent of m >= 1: the e with 2^e <= m < 2^(e+1)
FloatExponent(m) == IF m < 2 THEN 0 ELSE 1 + FloatExponent(m \div 2)

\* the double product n * 0.7 is below the exact 7n/10 where that is an
\* integer m = 7j (n = 10j): the double 0.7 is 0.7 - 0.4 * 2^-53, the exact
\* product is m - 4j * 2^-53, and it rounds to a double below m when 4j * 2^-53
\* is more than half the spacing 2^(e-52) of the doubles at m, e the exponent
\* of m (90 * 0.7 = 62.99999999999999; 10 * 0.7 = 7.0 is a tie, rounded to
\* the even 7.0)
product_07_below(n) ==
    /\ n > 0 /\ n % 10 = 0
    /\ 4 * (n \div 10) > 2 ^ FloatExponent(7 * (n \div 10))

\* len(self.visited) > (self.width * self.height) * 0.7, for v visited cells
\* of n, in double arithmetic: where 7n/10 is not an integer the rounding of
\* the product does not reach the next integer and the comparison is the
\* exact one
above_07(v, n) ==
    IF product_07_below(n) THEN v >= 7 * (n \div 10) ELSE 10 * v > 7 * n

\* len(self.visited) < (self.width * self.height) * 0.9, in double
\* arithmetic: the double 0.9 is 0.9 + 0.2 * 2^-53 and the product n * 0.9
\* rounds to the exact 9n/10 where that is an integer (the excess 2j * 2^-53
\* is less than half the spacing at 9j), so the comparison is the exact one
below_09(v, n) == 10 * v < 9 * n

\* should_explore_more that never asks for more exploration
should_explore_more_never(c) == FALSE

should_explore_more(c) ==
    IF c.phase = "speed_run" THEN FALSE
    ELSE IF \E d \in Directions :
               /\ ~is_wall(c.walls, c.x, c.y, d)
               /\ InBounds(Neighbour(c.x, c.y, d)[1], Neighbour(c.x, c.y, d)[2])
               /\ Neighbour(c.x, c.y, d) \notin c.visited
         THEN TRUE
         ELSE IF at_goal(c) /\ above_07(Cardinality(c.visited), width * height)
         THEN FALSE
         ELSE below_09(Cardinality(c.visited), width * height)

RECURSIVE turn_loop(_, _, _)
\* while self.direction != target_direction
turn_loop(dir, target_direction, sent) ==
    IF dir = target_direction THEN [direction |-> dir, cmds |-> sent]
    ELSE LET diff == (target_direction - dir) % 4
         IN  IF diff = 1
             THEN turn_loop((dir + 1) % 4, target_direction,
                            Append(sent, "turnRight"))
             ELSE IF diff = 3
             THEN turn_loop((dir - 1) % 4, target_direction,
                            Append(sent, "turnLeft"))
             ELSE turn_loop((dir + 2) % 4, target_direction,
                            sent \o <<"turnRight", "turnRight">>)

\* turn_to_direction that turns left for the half turn too, once
turn_to_direction_left(dir, target_direction) ==
    IF (target_direction - dir) % 4 = 2
    THEN [direction |-> (dir - 1) % 4, cmds |-> <<"turnLeft">>]
    ELSE turn_loop(dir, target_direction, <<>>)

turn_to_direction(dir, target_direction) ==
    turn_loop(dir, target_direction, <<>>)

move_forward(c) ==
    LET next == Neighbour(c.x, c.y, c.direction)
    IN  [c EXCEPT !.x = next[1], !.y = next[2],
                  !.visited = @ \cup {next},
                  !.cmds = Append(@, "moveForward")]

\* the reset branch without the re-creation of self.walls
reset_handler_keeps_walls(c) ==
    [c EXCEPT !.x = 0, !.y = 0, !.direction = 0,
              !.phase = "explore",
              !.visited = {<<0, 0>>},
              !.walls = initialize_boundaries(c.walls),
              !.goals = center_goals,
              !.best_direction = None,
              !.cmds = <<"ackReset">>,
              !.wall_cmds = <<>>,
              !.last = "reset"]

\* the reset branch with the visited set rebuilt from the position it is
\* about to reset
reset_handler_visited_here(c) ==
    [c EXCEPT !.x = 0, !.y = 0, !.direction = 0,
              !.phase = "explore",
              !.visited = {<<c.x, c.y>>},
              !.walls = initialize_boundaries(NoWalls),
              !.goals = center_goals,
              !.best_direction = None,
              !.cmds = <<"ackReset">>,
              !.wall_cmds = <<>>,
              !.last = "reset"]

\* the reset branch without the assignment of self.phase
reset_handler_keeps_phase(c) ==
    [c EXCEPT !.x = 0, !.y = 0, !.direction = 0,
              !.visited = {<<0, 0>>},
              !.walls = initialize_boundaries(NoWalls),
              !.goals = center_goals,
              !.best_direction = None,
              !.cmds = <<"ackReset">>,
              !.wall_cmds = <<>>,
              !.last = "reset"]

\* the reset branch of run
reset_handler(c) ==
    [c EXCEPT !.x = 0, !.y = 0, !.direction = 0,
              !.phase = "explore",
              !.visited = {<<0, 0>>},
              !.walls = initialize_boundaries(NoWalls),
              !.goals = center_goals,
              !.best_direction = None,
              !.cmds = <<"ackReset">>,
              !.wall_cmds = <<>>,
              !.last = "reset"]

\* "Decide next move" to the end of the loop body
decide_and_move(c) ==
    LET best == IF should_explore_more(c) /\ c.phase = "explore"
                THEN explore_direction(c)
                ELSE get_best_direction(c)
    IN  IF best # None
        THEN LET t == turn_to_direction(c.direction, best)
                 m == move_forward([c EXCEPT !.direction = t.direction,
                                             !.cmds = t.cmds,
                                             !.best_direction = best])
             IN  [m EXCEPT !.last = "move",
                           !.outcome = IF c.step_count > StepCeiling
                                       THEN "ceiling" ELSE "running"]
        ELSE [c EXCEPT !.best_direction = None,
                       !.last = "no_move", !.outcome = "no_valid_move"]

\* the goal check without the new goal list
goal_reached_keeps_goals(c) ==
    IF c.phase = "explore"
    THEN [c EXCEPT !.phase = "speed_run", !.last = "goal_reached"]
    ELSE [c EXCEPT !.outcome = "complete", !.last = "complete"]

\* the goal check that ends the loop in either phase
goal_reached_any_phase(c) ==
    [c EXCEPT !.outcome = "complete", !.last = "complete"]

\* "Check if we've reached the goal", when at_goal() is true: continue in
\* the speed run, or break
goal_reached(c) ==
    IF c.phase = "explore"
    THEN [c EXCEPT !.phase = "speed_run",
                   !.goals = << <<0, 0>> >>,
                   !.last = "goal_reached"]
    ELSE [c EXCEPT !.outcome = "complete", !.last = "complete"]

\* one iteration of the while loop of run; wall_checks are the answers to
\* wallFront, wallRight, wallBack, wallLeft when they are asked
run_cycle(c, was_reset, wall_checks) ==
    LET c0 == [c EXCEPT !.step_count = @ + 1]
    IN  IF was_reset THEN reset_handler(c0)
        ELSE LET s  == scan_walls(c0.walls, c0.x, c0.y, c0.direction, wall_checks)
                 c1 == [c0 EXCEPT !.walls = s.walls,
                                  !.wall_cmds = s.wall_cmds,
                                  !.cmds = <<>>,
                                  !.best_direction = None,
                                  !.flood_values = floodfill(s.walls, c0.goals)]
             IN  IF at_goal(c1) THEN goal_reached(c1) ELSE decide_and_move(c1)

----------------------------------------------------------------------------
(* The environment: the simulator's maze and its answers *)

\* the places of a maze where an interior wall can stand: the north and the
\* east side of a cell whose neighbour on that side is in the grid
Slots ==
    {s \in Cells \X {0, 1} :
        InBounds(Neighbour(s[1][1], s[1][2], s[2])[1],
                 Neighbour(s[1][1], s[1][2], s[2])[2])}

RECURSIVE SmallSubsets(_, _)
\* the subsets of S of at most k elements
SmallSubsets(S, k) ==
    IF k = 0 THEN {{}}
    ELSE LET P == SmallSubsets(S, k - 1)
         IN  P \cup {p \cup {e} : p \in P, e \in S}

RECURSIVE BuildMaze(_, _)
\* the maze with the outer walls and a wall at every slot of S
BuildMaze(w, S) ==
    IF S = {} THEN w
    ELSE LET s == CHOOSE e \in S : TRUE
         IN  BuildMaze(set_wall(w, s[1][1], s[1][2], s[2]), S \ {s})

\* the simulator's answers to wallFront, wallRight, wallBack, wallLeft: the
\* walls of the real maze around the robot, relative to its heading
wall_checks(c) ==
    [i \in 1 .. 4 |-> is_wall(real, c.x, c.y, (c.direction + (i - 1)) % 4)]

----------------------------------------------------------------------------
(* The state machine *)

Ctl ==
    [x |-> x, y |-> y, direction |-> direction, phase |-> phase,
     visited |-> visited, walls |-> walls, goals |-> goals,
     flood_values |-> flood_values, step_count |-> step_count,
     outcome |-> outcome, best_direction |-> best_direction,
     cmds |-> cmds, wall_cmds |-> wall_cmds, last |-> last]

Apply(n) ==
    /\ x' = n.x /\ y' = n.y /\ direction' = n.direction
    /\ phase' = n.phase /\ visited' = n.visited /\ walls' = n.walls
    /\ goals' = n.goals /\ flood_values' = n.flood_values
    /\ step_count' = n.step_count /\ outcome' = n.outcome
    /\ best_direction' = n.best_direction
    /\ cmds' = n.cmds /\ wall_cmds' = n.wall_cmds /\ last' = n.last
    /\ UNCHANGED <<width, height, real>>

\* the controller after MicromouseFloodfill.__init__, at the start of run
init_controller ==
    [x |-> 0, y |-> 0, direction |-> 0,
     walls |-> initialize_boundaries(NoWalls),
     flood_values |-> [c \in Cells |-> 0],
     goals |-> center_goals,
     phase |-> "explore",
     visited |-> {<<0, 0>>},
     step_count |-> 0,
     outcome |-> "running",
     best_direction |-> None,
     cmds |-> <<>>, wall_cmds |-> <<>>,
     last |-> "init"]

Constructed ==
    /\ x = init_controller.x /\ y = init_controller.y
    /\ direction = init_controller.direction
    /\ walls = init_controller.walls
    /\ flood_values = init_controller.flood_values
    /\ goals = init_controller.goals
    /\ phase = init_controller.phase
    /\ visited = init_controller.visited
    /\ step_count = init_controller.step_count
    /\ outcome = init_controller.outcome
    /\ best_direction = init_controller.best_direction
    /\ cmds = init_controller.cmds /\ wall_cmds = init_controller.wall_cmds
    /\ last = init_controller.last

Init ==
    \E w \in 1 .. MaxW, h \in 1 .. MaxH :
        /\ width = w /\ height = h
        /\ \E S \in SmallSubsets(Slots, MaxWalls) :
               real = BuildMaze(initialize_boundaries(NoWalls), S)
        /\ Constructed

\* a cycle in which wasReset answers true
ResetCycle ==
    /\ outcome = "running"
    /\ step_count < MaxResetStep
    /\ Apply(run_cycle(Ctl, TRUE, wall_checks(Ctl)))

\* a cycle that finds the robot on a goal cell while exploring
GoalReachedCycle ==
    /\ outcome = "running"
    /\ at_goal(Ctl) /\ phase = "explore"
    /\ Apply(run_cycle(Ctl, FALSE, wall_checks(Ctl)))

\* a cycle that finds the robot on a goal cell in the speed run
CompleteCycle ==
    /\ outcome = "running"
    /\ at_goal(Ctl) /\ phase = "speed_run"
    /\ Apply(run_cycle(Ctl, FALSE, wall_checks(Ctl)))

\* a cycle that selects a direction, turns and moves
MoveCycle ==
    /\ outcome = "running"
    /\ ~at_goal(Ctl)
    /\ LET n == run_cycle(Ctl, FALSE, wall_checks(Ctl))
       IN  n.last = "move" /\ Apply(n)

\* a cycle that selects no direction
NoMoveCycle ==
    /\ outcome = "running"
    /\ ~at_goal(Ctl)
    /\ LET n == run_cycle(Ctl, FALSE, wall_checks(Ctl))
       IN  n.last = "no_move" /\ Apply(n)

Next ==
    \/ ResetCycle
    \/ GoalReachedCycle
    \/ CompleteCycle
    \/ MoveCycle
    \/ NoMoveCycle

Spec == Init /\ [][Next]_vars

----------------------------------------------------------------------------
(* The loop without the reset signal: wasReset always answers false.       *)

NextNoReset ==
    \/ GoalReachedCycle
    \/ CompleteCycle
    \/ MoveCycle
    \/ NoMoveCycle

SpecNoReset == Init /\ [][NextNoReset]_vars

----------------------------------------------------------------------------
(* The loop in a corridor with the reset signal raised in any      *)
(* cycle, as long as the step count has not passed the ceiling: the runs   *)
(* that reach the step ceiling.                                            *)

\* a cycle in which wasReset answers true, whatever the step count
LateResetCycle ==
    /\ outcome = "running"
    /\ step_count <= StepCeiling
    /\ Apply(run_cycle(Ctl, TRUE, wall_checks(Ctl)))

\* the corridors: mazes one cell high
InitCorridor ==
    \E w \in {CorridorWidth}, h \in {1} :
        /\ width = w /\ height = h
        /\ \E S \in SmallSubsets(Slots, MaxWalls) :
               real = BuildMaze(initialize_boundaries(NoWalls), S)
        /\ Constructed

NextLongRun ==
    \/ LateResetCycle
    \/ GoalReachedCycle
    \/ CompleteCycle
    \/ MoveCycle
    \/ NoMoveCycle

SpecLongRun == InitCorridor /\ [][NextLongRun]_vars

----------------------------------------------------------------------------
(* The operations of the maze model, the flood fill and the orientation    *)
(* control called one by one on a constructed controller: any sequence of  *)
(* set_wall calls (up to MaxUnitWalls interior walls), then a floodfill for    *)
(* any goal list of up to MaxGoals cells; and any sequence of              *)
(* turn_to_direction calls.                                                *)

InteriorWalls(w) ==
    Cardinality({s \in Slots : is_wall(w, s[1][1], s[1][2], s[2])})

RECURSIVE GoalList(_)
\* the cells of G as a list, row by row as center_goals lists them
GoalList(G) ==
    IF G = {} THEN <<>>
    ELSE LET first == CHOOSE c \in G : \A o \in G :
                          c[2] < o[2] \/ (c[2] = o[2] /\ c[1] <= o[1])
         IN  <<first>> \o GoalList(G \ {first})

InitUnit ==
    \E w \in 1 .. MaxW, h \in 1 .. MaxH :
        /\ width = w /\ height = h
        /\ real = initialize_boundaries(NoWalls)
        /\ Constructed

SetWallCall ==
    \E c \in Cells, d \in Directions :
        /\ last \in {"init", "set_wall"}
        /\ InteriorWalls(set_wall(walls, c[1], c[2], d)) <= MaxUnitWalls
        /\ walls' = set_wall(walls, c[1], c[2], d)
        /\ last' = "set_wall"
        /\ UNCHANGED <<width, height, real, x, y, direction, phase, visited,
                       goals, flood_values, step_count, outcome,
                       best_direction, cmds, wall_cmds>>

FloodfillCall ==
    \E G \in SmallSubsets(Cells, MaxGoals) \ {{}} :
        /\ last \in {"init", "set_wall"}
        /\ goals' = GoalList(G)
        /\ flood_values' = floodfill(walls, GoalList(G))
        /\ last' = "floodfill"
        /\ UNCHANGED <<width, height, real, x, y, direction, phase, visited,
                       walls, step_count, outcome, best_direction, cmds,
                       wall_cmds>>

TurnCall ==
    \E target \in Directions :
        /\ last \in {"init", "turn"}
        /\ direction' = turn_to_direction(direction, target).direction
        /\ cmds' = turn_to_direction(direction, target).cmds
        /\ best_direction' = target
        /\ last' = "turn"
        /\ UNCHANGED <<width, height, real, x, y, phase, visited, walls,
                       goals, flood_values, step_count, outcome, wall_cmds>>

NextUnit ==
    \/ SetWallCall
    \/ FloodfillCall
    \/ TurnCall

SpecUnit == InitUnit /\ [][NextUnit]_vars

----------------------------------------------------------------------------
(* The maze model: claims C1, C2, C8 (under SpecUnit) *)

Opposite(d) == (d + 2) % 4

\* C1 (wall symmetry): after any sequence of set_wall calls on a constructed
\* maze, for every cell and every direction whose neighbour is in the grid,
\* is_wall of the cell in that direction equals is_wall of the neighbour in
\* the opposite direction.
WallSymmetry ==
    \A c \in Cells, d \in Directions :
        LET n == Neighbour(c[1], c[2], d)
        IN  InBounds(n[1], n[2]) =>
                (is_wall(walls, c[1], c[2], d) = is_wall(walls, n[1], n[2], Opposite(d)))

\* a set_wall call has put a wall between two cells of the grid
WallSymmetryWitness ==
    /\ last = "set_wall"
    /\ \E c \in Cells, d \in Directions :
           /\ InBounds(Neighbour(c[1], c[2], d)[1], Neighbour(c[1], c[2], d)[2])
           /\ is_wall(walls, c[1], c[2], d)

RECURSIVE path_levels(_, _, _, _)
\* the search by levels: frontier is the set of cells at k steps of a goal;
\* a step leaves a cell through a side of it that has no wall
path_levels(w, dist, frontier, k) ==
    IF frontier = {} THEN dist
    ELSE LET nxt == {n \in Cells :
                        /\ dist[n] = Inf
                        /\ \E d \in Directions :
                               /\ ~is_wall(w, n[1], n[2], d)
                               /\ Neighbour(n[1], n[2], d) \in frontier}
         IN  path_levels(w, [c \in Cells |-> IF c \in nxt THEN k + 1 ELSE dist[c]],
                         nxt, k + 1)

\* the length of the shortest wall-respecting path of every cell to the
\* nearest cell of G, Inf where there is none
ShortestPaths(w, G) ==
    path_levels(w, [c \in Cells |-> IF c \in G THEN 0 ELSE Inf], G, 0)

GoalSet(g) == {g[i] : i \in 1 .. Len(g)}

\* C2 (flood-fill correctness): after floodfill on a wall-symmetric maze and
\* a non-empty goal list, every goal cell has distance 0, every cell from
\* which a goal can be reached has the length of its shortest wall-respecting
\* path to the nearest goal cell, and every other cell has the sentinel.
FloodfillCorrect ==
    last = "floodfill" =>
        /\ \A c \in GoalSet(goals) : flood_values[c] = 0
        /\ \A c \in Cells : flood_values[c] = ShortestPaths(walls, GoalSet(goals))[c]

\* a flood fill that leaves a cell behind a wall unreachable and puts
\* another cell one step from the goal
FloodfillWitness ==
    /\ last = "floodfill"
    /\ \E c \in Cells : flood_values[c] = Inf
    /\ \E c \in Cells : flood_values[c] = 1

\* the turn commands of a turn by diff quarter turns to the right
TurnCommands(diff) ==
    IF diff = 0 THEN <<>>
    ELSE IF diff = 1 THEN <<"turnRight">>
    ELSE IF diff = 3 THEN <<"turnLeft">>
    ELSE <<"turnRight", "turnRight">>

\* C8 (orientation correctness): for every heading and every target, after
\* turn_to_direction(target) the heading is the target and the commands sent
\* are none, one turnRight, one turnLeft or two turnRight as
\* (target - heading) mod 4 is 0, 1, 3 or 2.
TurnCorrect ==
    [][last' = "turn" =>
          /\ direction' = best_direction'
          /\ cmds' = TurnCommands((best_direction' - direction) % 4)
          /\ Len(cmds') <= 2]_vars

\* a half turn from South to North has been made
TurnWitness ==
    /\ last = "turn"
    /\ direction = 0
    /\ cmds = <<"turnRight", "turnRight">>

----------------------------------------------------------------------------
(* The control loop: claims C3 (under SpecNoReset), C4, C5 (under          *)
(* SpecLongRun), C6, C7, C9, C10 (under Spec)                              *)

\* a centre goal cell can be reached from the start cell in the real maze
\* (and the start from it: the walls of a maze have two sides)
Solvable ==
    ShortestPaths(real, GoalSet(center_goals))[<<0, 0>>] # Inf

\* C3 (termination), for the runs of the grids of Init: in a maze whose
\* centre goal can be reached from the start, with truthful wall sensors and
\* no reset signal, the loop never ends with the no-valid-move or the
\* step-ceiling outcome, and its step count, which every cycle of a running
\* loop increments, stays within the ceiling.  These runs take a few cycles:
\* the ceiling is not at stake in them.  A run that needs more than
\* StepCeiling cycles (the open corridor of StepCeiling + 1 cells, where the
\* move onto the start cell is made in cycle StepCeiling + 1) is out of the
\* reach of the exploration, and the invariant says nothing of it.
Termination ==
    Solvable => (outcome \in {"running", "complete"} /\ step_count <= StepCeiling)

\* a run has completed in a maze in which it discovered an interior wall
TerminationWitness ==
    /\ Solvable
    /\ outcome = "complete"
    /\ InteriorWalls(walls) > 0
    /\ step_count > 4

\* C4 (hard step-count ceiling): the cycle in which the step count first
\* exceeds the ceiling is the last one, so that no execution runs more than
\* StepCeiling + 1 cycles.
HardStepCeiling ==
    /\ step_count > StepCeiling => outcome # "running"
    /\ step_count <= StepCeiling + 1

RECURSIVE run_to_end(_)
\* the loop of run from the controller state c, with no reset signal
run_to_end(c) ==
    IF c.outcome # "running" THEN c
    ELSE run_to_end(run_cycle(c, FALSE, wall_checks(c)))

\* what a freshly constructed controller does in the real maze
FreshRun == run_to_end(init_controller)

\* C5 as stated (reset yields a fresh controller): a run in which the reset
\* handler has run ends with the termination outcome of a freshly
\* constructed controller in the same maze.
ResetRunsAsFresh ==
    outcome # "running" => outcome = FreshRun.outcome

\* C5 as amended: after the reset handler, position, heading, phase, visited
\* set, wall masks and goal list are those of a freshly constructed
\* controller; the step count is not reset, so that the run ends as the run
\* of the fresh controller (same outcome, position, heading, walls and
\* visited set) whenever it ends with the step count within the ceiling.
ResetRestoresController ==
    /\ last = "reset" =>
           /\ x = init_controller.x /\ y = init_controller.y
           /\ direction = init_controller.direction
           /\ phase = init_controller.phase
           /\ visited = init_controller.visited
           /\ walls = init_controller.walls
           /\ goals = init_controller.goals
    /\ (outcome # "running" /\ step_count <= StepCeiling) =>
           LET fresh == FreshRun
           IN  /\ outcome = fresh.outcome
               /\ x = fresh.x /\ y = fresh.y
               /\ direction = fresh.direction
               /\ walls = fresh.walls
               /\ visited = fresh.visited

\* the reset handler has run in the speed run, after the flood fill to the
\* start cell
ResetWitness ==
    /\ last = "reset"
    /\ width = 3
    /\ step_count > 2
    /\ flood_values[<<0, 0>>] = 0
    /\ flood_values[<<1, 0>>] = 1

\* C6 (idempotent reset): a reset cycle that follows a reset cycle leaves
\* position, heading, phase, visited set, wall masks and goal list as the
\* first one made them.
IdempotentReset ==
    [][(last = "reset" /\ last' = "reset" /\ step_count' = step_count + 1) =>
          /\ x' = x /\ y' = y /\ direction' = direction
          /\ phase' = phase /\ visited' = visited
          /\ walls' = walls /\ goals' = goals]_vars

\* the first two cycles of a run have handled the reset signal (no flood
\* fill has been made yet)
IdempotentResetWitness ==
    /\ last = "reset"
    /\ step_count = 2
    /\ width = 3
    /\ flood_values = [c \in Cells |-> 0]

\* C7 (phase transition at the goal): a cycle that comes to the goal check
\* with the robot on a goal cell, while exploring, makes the phase speed_run
\* and the goal list [(0,0)], leaves position and heading as they are and
\* sends no turn or move command; in the speed run it ends the loop.
GoalTransition ==
    [][(/\ outcome = "running"
        /\ at_goal(Ctl)
        /\ step_count' = step_count + 1
        /\ last' # "reset") =>
          IF phase = "explore"
          THEN /\ phase' = "speed_run"
               /\ goals' = << <<0, 0>> >>
               /\ x' = x /\ y' = y /\ direction' = direction
               /\ cmds' = <<>>
               /\ outcome' = "running"
          ELSE outcome' = "complete"]_vars

\* the robot has walked to a goal cell and the cycle there has switched the
\* phase
GoalTransitionWitness ==
    /\ last = "goal_reached"
    /\ phase = "speed_run"
    /\ <<x, y>> # <<0, 0>>
    /\ goals = << <<0, 0>> >>

\* C9 (boundary safety): in every reachable state is_wall is true for every
\* cell of the grid and every direction whose neighbour is outside it.
BoundarySafety ==
    \A c \in Cells, d \in Directions :
        ~InBounds(Neighbour(c[1], c[2], d)[1], Neighbour(c[1], c[2], d)[2])
            => is_wall(walls, c[1], c[2], d)

\* a reset has re-created the walls of a grid one cell high, after a cycle
\* that discovered walls
BoundarySafetyWitness ==
    /\ last = "reset"
    /\ height = 1 /\ width = 3
    /\ step_count = 3
    /\ \E c \in Cells : flood_values[c] = Inf

\* the current cell has no unblocked neighbour in the grid
Blocked(w, cx, cy) ==
    \A d \in Directions :
        \/ is_wall(w, cx, cy, d)
        \/ ~InBounds(Neighbour(cx, cy, d)[1], Neighbour(cx, cy, d)[2])

\* the current cell has no unblocked neighbour in the grid with a distance
\* other than the sentinel
NoFiniteNeighbour(w, fv, cx, cy) ==
    \A d \in Directions :
        \/ is_wall(w, cx, cy, d)
        \/ ~InBounds(Neighbour(cx, cy, d)[1], Neighbour(cx, cy, d)[2])
        \/ fv[Neighbour(cx, cy, d)] = Inf

\* C10 as stated (no valid move): a move-selection step selects no direction,
\* and the loop ends with the no-valid-move outcome, if and only if the
\* current cell has no unblocked neighbour in the grid.
NoMoveIffBlocked ==
    [][(last' \in {"move", "no_move"} /\ step_count' = step_count + 1) =>
          /\ (last' = "no_move") <=> Blocked(walls', x, y)
          /\ (last' = "no_move") <=> (outcome' = "no_valid_move")]_vars

\* C10 as amended: a move-selection step selects no direction, and the loop
\* ends with the no-valid-move outcome, if and only if no unblocked
\* neighbour of the current cell in the grid has a finite distance in the
\* distance map of the cycle (as when the goal cannot be reached).
NoMoveIffNoFiniteNeighbour ==
    [][(last' \in {"move", "no_move"} /\ step_count' = step_count + 1) =>
          /\ (last' = "no_move") <=> NoFiniteNeighbour(walls', flood_values', x, y)
          /\ (last' = "no_move") <=> (outcome' = "no_valid_move")
          /\ (last' = "no_move") <=> (best_direction' = None)]_vars

\* the loop has ended with no direction selected in a cell that has an
\* unblocked neighbour
NoMoveWitness ==
    /\ last = "no_move"
    /\ outcome = "no_valid_move"
    /\ ~Blocked(walls, x, y)

----------------------------------------------------------------------------
(* The goal list and the phases: claims C11, C12 (under Spec) *)

\* the cells at the centre of the grid: the middle column (the two middle
\* columns of an even width) and the middle row (the two middle rows of an
\* even height)
CentreCells ==
    {c \in Cells : /\ 2 * c[1] + 1 - width \in {-1, 0, 1}
                   /\ 2 * c[2] + 1 - height \in {-1, 0, 1}}

\* the number of even dimensions of the grid
EvenDimensions ==
    (IF width % 2 = 0 THEN 1 ELSE 0) + (IF height % 2 = 0 THEN 1 ELSE 0)

\* two cells side by side
Adjacent(a, b) ==
    \/ a[1] = b[1] /\ (a[2] - b[2] \in {-1, 1})
    \/ a[2] = b[2] /\ (a[1] - b[1] \in {-1, 1})

\* C11 (goal set by parity): the goal list built at construction and rebuilt
\* by the reset handler names each of its cells once; its cells are the
\* centre cells of the grid, all in the grid: 1 cell when width and height
\* are odd, 2 adjacent cells when exactly one of them is even, the 4 cells of
\* a 2x2 block when both are even.
GoalsByParity ==
    last \in {"init", "reset"} =>
        /\ Len(goals) = Cardinality(GoalSet(goals))
        /\ GoalSet(goals) \subseteq Cells
        /\ GoalSet(goals) = CentreCells
        /\ EvenDimensions = 0 => Cardinality(GoalSet(goals)) = 1
        /\ EvenDimensions = 1 =>
               /\ Cardinality(GoalSet(goals)) = 2
               /\ \A a, b \in GoalSet(goals) : a # b => Adjacent(a, b)
        /\ EvenDimensions = 2 =>
               /\ Cardinality(GoalSet(goals)) = 4
               /\ \E c \in Cells :
                      GoalSet(goals) = {c, <<c[1] + 1, c[2]>>, <<c[1], c[2] + 1>>,
                                        <<c[1] + 1, c[2] + 1>>}

\* the reset handler has rebuilt the two goal cells of a 3x2 grid after a
\* speed-run cycle had made its flood fill to the start cell
GoalsByParityWitness ==
    /\ last = "reset"
    /\ width = 3 /\ height = 2
    /\ Len(goals) = 2
    /\ step_count = 4
    /\ flood_values[<<0, 0>>] = 0

\* C12 (normal completion ordering): the loop ends with the speed-run-complete
\* outcome only in the speed_run phase with the robot on the start cell (0,0)
\* and a centre goal cell among the cells visited; the phase becomes speed_run
\* only in a cycle that finds the robot standing on a centre goal cell in
\* the explore phase, and the reset handler puts the phase back to explore,
\* so that the visit of the centre goal comes after construction or the most
\* recent reset and before the completion.
CompletionOrdering ==
    [][/\ outcome' = "complete" =>
              /\ phase' = "speed_run"
              /\ <<x', y'>> = <<0, 0>>
              /\ GoalSet(center_goals) \cap visited' # {}
       /\ (phase' = "speed_run" /\ phase # "speed_run") =>
              /\ phase = "explore"
              /\ <<x, y>> \in GoalSet(center_goals)
              /\ <<x', y'>> = <<x, y>>
       /\ last' = "reset" => phase' = "explore"]_vars

\* a speed run has been completed on the start cell of a 3x2 maze in which
\* the robot discovered an interior wall
CompletionOrderingWitness ==
    /\ last = "complete"
    /\ outcome = "complete"
    /\ width = 3 /\ height = 2
    /\ <<x, y>> = <<0, 0>>
    /\ phase = "speed_run"
    /\ InteriorWalls(walls) > 0

----------------------------------------------------------------------------
(* The loop in the grids two cells high and RowsWidth cells wide, where    *)
(* the walls of the maze can close a block of four cells around the start. *)

InitTwoRows ==
    \E w \in {RowsWidth}, h \in {2} :
        /\ width = w /\ height = h
        /\ \E S \in SmallSubsets(Slots, MaxWalls) :
               real = BuildMaze(initialize_boundaries(NoWalls), S)
        /\ Constructed

SpecTwoRows == InitTwoRows /\ [][Next]_vars

----------------------------------------------------------------------------
(* The loop without the reset signal in the grids three cells high and     *)
(* RowsWidth cells wide, where the robot comes to cells with a visited     *)
(* neighbour nearer to the goal than an unvisited one.                     *)

InitThreeRows ==
    \E w \in {RowsWidth}, h \in {3} :
        /\ width = w /\ height = h
        /\ \E S \in SmallSubsets(Slots, MaxWalls) :
               real = BuildMaze(initialize_boundaries(NoWalls), S)
        /\ Constructed

SpecThreeRows == InitThreeRows /\ [][NextNoReset]_vars

----------------------------------------------------------------------------
(* The loop without the reset signal in the grids of both heights: the     *)
(* block closed around the start (two rows) and the visited neighbour      *)
(* nearer to the goal than an unvisited one (three rows).                  *)

InitRows == InitTwoRows \/ InitThreeRows

SpecRows == InitRows /\ [][NextNoReset]_vars

----------------------------------------------------------------------------
(* The move selection: claims C13 (under SpecRows), C14 (under SpecTwoRows) *)

\* the directions of the unblocked neighbours of (cx, cy) in the grid
OpenDirections(w, cx, cy) ==
    {d \in Directions :
        /\ ~is_wall(w, cx, cy, d)
        /\ InBounds(Neighbour(cx, cy, d)[1], Neighbour(cx, cy, d)[2])}

\* the directions of the unblocked neighbours that are not in the set v
UnvisitedDirections(w, v, cx, cy) ==
    {d \in OpenDirections(w, cx, cy) : Neighbour(cx, cy, d) \notin v}

\* the direction of D whose neighbour has the lowest distance, the first in
\* the order North, East, South, West among equals
LowestDirection(D, fv, cx, cy) ==
    CHOOSE d \in D : \A e \in D :
        \/ fv[Neighbour(cx, cy, d)] < fv[Neighbour(cx, cy, e)]
        \/ fv[Neighbour(cx, cy, d)] = fv[Neighbour(cx, cy, e)] /\ d <= e

\* C13 as stated (exploration prefers unvisited cells): in an explore cycle
\* at a non-goal cell, whenever an unblocked neighbour of the current cell is
\* not in the visited set, the robot moves to the unvisited unblocked
\* neighbour with the lowest distance, the first in the order North, East,
\* South, West among equals.
ExplorePrefersUnvisited ==
    [][(/\ phase = "explore"
        /\ last' \in {"move", "no_move"}
        /\ step_count' = step_count + 1
        /\ UnvisitedDirections(walls', visited, x, y) # {}) =>
          /\ last' = "move"
          /\ best_direction' =
                 LowestDirection(UnvisitedDirections(walls', visited, x, y),
                                 flood_values', x, y)
          /\ direction' = best_direction'
          /\ <<x', y'>> = Neighbour(x, y, best_direction')
          /\ <<x', y'>> \notin visited]_vars

\* C13 as amended: the same, whenever an unblocked neighbour of the current
\* cell that is not in the visited set has a finite distance; when the
\* unvisited unblocked neighbours all have the sentinel (the known walls cut
\* the current cell off the goal), no direction is selected and the loop
\* ends with the no-valid-move outcome.
ExplorePrefersFiniteUnvisited ==
    [][(/\ phase = "explore"
        /\ last' \in {"move", "no_move"}
        /\ step_count' = step_count + 1
        /\ UnvisitedDirections(walls', visited, x, y) # {}) =>
          IF \E d \in UnvisitedDirections(walls', visited, x, y) :
                 flood_values'[Neighbour(x, y, d)] # Inf
          THEN /\ last' = "move"
               /\ best_direction' =
                      LowestDirection(UnvisitedDirections(walls', visited, x, y),
                                      flood_values', x, y)
               /\ direction' = best_direction'
               /\ <<x', y'>> = Neighbour(x, y, best_direction')
               /\ <<x', y'>> \notin visited
          ELSE /\ last' = "no_move"
               /\ outcome' = "no_valid_move"
               /\ <<x', y'>> = <<x, y>>]_vars

\* the preference has decided a move: the robot has moved, exploring, to a
\* neighbour that was unvisited, although another unblocked neighbour of the
\* cell it left was visited and has a lower distance in the map of the cycle
\* (without the preference the lowest distance would have been taken)
ExplorePrefersWitness ==
    /\ last = "move"
    /\ phase = "explore"
    /\ LET back == Neighbour(x, y, Opposite(best_direction))
       IN  \E d \in OpenDirections(walls, back[1], back[2]) :
               /\ Neighbour(back[1], back[2], d) \in visited \ {<<x, y>>}
               /\ flood_values[Neighbour(back[1], back[2], d)] < flood_values[<<x, y>>]

\* C14 (speed-run move selection): in a speed_run cycle at a non-goal cell
\* the distance map is the map of the shortest known paths to (0,0), and the
\* robot turns and moves to the unblocked neighbour in the grid with the
\* lowest distance in it, the first in the order North, East, South, West
\* among the neighbours of equal lowest distance.
SpeedRunSelection ==
    [][(/\ phase = "speed_run"
        /\ last' \in {"move", "no_move"}
        /\ step_count' = step_count + 1) =>
          /\ flood_values' = ShortestPaths(walls', {<<0, 0>>})
          /\ last' = "move"
          /\ OpenDirections(walls', x, y) # {}
          /\ best_direction' =
                 LowestDirection(OpenDirections(walls', x, y), flood_values', x, y)
          /\ direction' = best_direction'
          /\ <<x', y'>> = Neighbour(x, y, best_direction')]_vars

\* a speed-run move has been made from a cell with two unblocked neighbours
\* of the same lowest distance
SpeedRunSelectionWitness ==
    /\ last = "move"
    /\ phase = "speed_run"
    /\ LET back == Neighbour(x, y, Opposite(best_direction))
       IN  \E d \in OpenDirections(walls, back[1], back[2]) :
               /\ d # best_direction
               /\ flood_values[Neighbour(back[1], back[2], d)] = flood_values[<<x, y>>]

----------------------------------------------------------------------------
(* The phases and the goal list: claim C15 (under Spec) *)

\* C15 as stated (phase/goal-set coupling): at every cycle boundary the phase
\* is explore exactly when the goal set is the centre set, and speed_run
\* exactly when the goal set is {(0,0)}.
PhaseGoalCoupling ==
    /\ phase = "explore" <=> GoalSet(goals) = GoalSet(center_goals)
    /\ phase = "speed_run" <=> GoalSet(goals) = {<<0, 0>>}

\* C15 as amended: at every cycle boundary the goal list is the centre list
\* in the explore phase and [(0,0)] in the speed_run phase; the goal set
\* tells the phase in every grid of more than one cell (in the 1x1 grid the
\* centre set is {(0,0)} in both phases); and the phase changes from
\* speed_run to explore only in a reset cycle.
PhaseGoalCouplingBeyondOneCell ==
    /\ [](/\ phase \in {"explore", "speed_run"}
          /\ phase = "explore" => goals = center_goals
          /\ phase = "speed_run" => goals = << <<0, 0>> >>
          /\ width * height > 1 =>
                 /\ phase = "explore" <=> GoalSet(goals) = GoalSet(center_goals)
                 /\ phase = "speed_run" <=> GoalSet(goals) = {<<0, 0>>})
    /\ [][(phase = "speed_run" /\ phase' = "explore") => last' = "reset"]_vars

\* a reset cycle has put the phase back from speed_run to explore: the
\* flood fill to the start cell has been made, and the goal list is the
\* centre list again
PhaseGoalCouplingWitness ==
    /\ last = "reset"
    /\ phase = "explore"
    /\ width = 3 /\ height = 1
    /\ goals = << <<1, 0>> >>
    /\ flood_values[<<0, 0>>] = 0
    /\ flood_values[<<2, 0>>] = 2

----------------------------------------------------------------------------
(* The wall scan and the moves: claims C16, C17, C18 (under Spec) *)

\* the letter that denotes an absolute direction: n North (0), e East (1),
\* s South (2), w West (3)
DirectionLetter(d) == <<"n", "e", "s", "w">>[d + 1]

\* the relative sensors (0 front, 1 right, 2 back, 3 left) that report a wall
\* in the answers wc, in the order of the scan
ReportingSensors(wc) == SelectSeq(<<0, 1, 2, 3>>, LAMBDA r : wc[r + 1])

\* C16 (visualizer wall agreement): in a cycle that scans the walls, for
\* every wall reported by a relative sensor r at heading h, the maze model
\* has a wall on the absolute direction (h + r) mod 4 of the current cell, and
\* the setWall command sent for it names the current cell and the letter of
\* that same absolute direction.
VisualizerWallAgreement ==
    [][(last' # "reset" /\ step_count' = step_count + 1) =>
          LET sensors == ReportingSensors(wall_checks(Ctl))
          IN  /\ \A i \in 1 .. Len(sensors) :
                     is_wall(walls', x, y, (direction + sensors[i]) % 4)
              /\ wall_cmds' =
                     [i \in 1 .. Len(sensors) |->
                         <<x, y, DirectionLetter((direction + sensors[i]) % 4)>>]]_vars

\* C17 (walls are only added): a cycle other than a reset cycle clears no
\* wall bit: the mask of every cell after the cycle has every bit it had
\* before, and only the masks of the robot's cell at the start of the cycle
\* and of its neighbours in the grid change.
WallsOnlyAdded ==
    [][(last' # "reset" /\ step_count' = step_count + 1) =>
          \A c \in Cells :
              /\ \A d \in Directions :
                     HasBit(walls[c], get_direction_bit(d))
                         => HasBit(walls'[c], get_direction_bit(d))
              /\ walls'[c] \in 0 .. 15
              /\ walls'[c] # walls[c] =>
                     \/ c = <<x, y>>
                     \/ \E d \in Directions : c = Neighbour(x, y, d)]_vars

\* a scan has put a wall bit in the mask of a cell the robot has never been
\* in, through the scan of the cell on the other side of the wall
WallsOnlyAddedWitness ==
    /\ last = "move"
    /\ \E c \in Cells \ visited, d \in Directions :
           /\ Neighbour(c[1], c[2], d) \in visited
           /\ is_wall(walls, c[1], c[2], d)

\* C18 (the robot never crosses a wall or leaves the grid): with truthful
\* wall sensors the robot's position is always a cell of the grid and the
\* known walls are walls of the real maze; moveForward is sent only as the
\* last command of a move cycle, when the four sides of the current cell are
\* known as they are in the real maze and the robot faces a side of it that
\* has no wall in the real maze, and it takes the robot to the neighbour on
\* that side.
NeverCrossesWall ==
    /\ [](/\ InBounds(x, y)
          /\ \A c \in Cells, d \in Directions :
                 is_wall(walls, c[1], c[2], d) => is_wall(real, c[1], c[2], d))
    /\ [][(step_count' = step_count + 1) =>
            /\ \A i \in 1 .. Len(cmds') :
                   cmds'[i] = "moveForward" => (i = Len(cmds') /\ last' = "move")
            /\ last' = "move" =>
                   /\ cmds' # <<>> /\ cmds'[Len(cmds')] = "moveForward"
                   /\ \A d \in Directions :
                          is_wall(walls', x, y, d) = is_wall(real, x, y, d)
                   /\ ~is_wall(real, x, y, direction')
                   /\ <<x', y'>> = Neighbour(x, y, direction')
                   /\ InBounds(x', y')]_vars

\* the robot has moved out of a cell that has a wall of the real maze
\* between it and another cell of the grid
NeverCrossesWallWitness ==
    /\ last = "move"
    /\ cmds # <<>> /\ cmds[Len(cmds)] = "moveForward"
    /\ LET back == Neighbour(x, y, Opposite(direction))
       IN  \E d \in Directions :
               /\ InBounds(Neighbour(back[1], back[2], d)[1],
                           Neighbour(back[1], back[2], d)[2])
               /\ is_wall(real, back[1], back[2], d)
               /\ is_wall(walls, back[1], back[2], d)

----------------------------------------------------------------------------
(* The move selection again: claims C19 (under SpecThreeRows), C20 (under  *)
(* SpecTwoRows)                                                            *)

\* the controller at the move selection of a cycle, rebuilt from the state
\* before the cycle (position, heading, visited set, phase) and the state
\* after it (walls and distance map of the cycle)
AtSelection(w, fv) ==
    [Ctl EXCEPT !.walls = w, !.flood_values = fv]

\* C19 as stated (the exploration-continuation heuristic does not change the
\* chosen move): in every explore cycle at a non-goal cell the biased
\* selection, taken when should_explore_more() is true, and the plain
\* lowest-distance selection, taken when it is false, select the same
\* direction.
BranchesSelectSame ==
    [][(/\ phase = "explore"
        /\ last' \in {"move", "no_move"}
        /\ step_count' = step_count + 1) =>
          explore_direction(AtSelection(walls', flood_values'))
              = get_best_direction(AtSelection(walls', flood_values'))]_vars

\* C19 as amended: in every explore cycle at a non-goal cell where no
\* unblocked neighbour of the current cell is unvisited, the only cycles in
\* which should_explore_more() comes to the coverage thresholds, the biased
\* and the plain selection select the same direction, which is the direction
\* taken: the thresholds never change the move.  In a cycle with an
\* unvisited unblocked neighbour should_explore_more() is true and the biased
\* selection is the one taken.
ThresholdsSelectSame ==
    [][(/\ phase = "explore"
        /\ last' \in {"move", "no_move"}
        /\ step_count' = step_count + 1) =>
          LET c == AtSelection(walls', flood_values')
          IN  /\ best_direction' = explore_direction(c)
              /\ UnvisitedDirections(walls', visited, x, y) = {} =>
                     /\ explore_direction(c) = get_best_direction(c)
                     /\ best_direction' = get_best_direction(c)
              /\ UnvisitedDirections(walls', visited, x, y) # {} =>
                     should_explore_more(c)]_vars

\* a move has been made in the explore phase out of a dead end: the cell
\* left is not the start cell and its only unblocked neighbour is the cell
\* the robot had come from, so that none of its neighbours was unvisited
ThresholdsWitness ==
    /\ last = "move"
    /\ phase = "explore"
    /\ LET back == Neighbour(x, y, Opposite(best_direction))
       IN  /\ back # <<0, 0>>
           /\ OpenDirections(walls, back[1], back[2]) = {best_direction}

\* C20 (speed-run descent): every move made in the speed_run phase leaves a
\* cell with a finite distance to (0,0) in the distance map of the cycle and
\* lands on a cell whose distance in that map is exactly one less.
SpeedRunDescent ==
    [][(/\ phase = "speed_run"
        /\ last' = "move"
        /\ step_count' = step_count + 1) =>
          /\ GoalSet(goals') = {<<0, 0>>}
          /\ flood_values'[<<0, 0>>] = 0
          /\ flood_values'[<<x, y>>] # Inf
          /\ flood_values'[<<x', y'>>] = flood_values'[<<x, y>>] - 1]_vars

\* a speed-run move has been made around a known interior wall, from a cell
\* at three steps or more of the start
SpeedRunDescentWitness ==
    /\ last = "move"
    /\ phase = "speed_run"
    /\ flood_values[<<x, y>>] >= 2
    /\ flood_values[<<x, y>>] # Inf
    /\ InteriorWalls(walls) > 0

====
